---- MODULE Spec2Model ----
(***************************************************************************)
(* WebGLDevice (cocos/core/gfx/webgl/webgl-device.ts): context creation,   *)
(* capability negotiation, platform quirks, baseline state, resource       *)
(* factory and data-transfer operations, as a state machine.               *)
(*                                                                         *)
(* The device runs single-threaded: every public method runs to completion *)
(* before the next one starts.  initialize is one action, computed as the  *)
(* fold of its statements in source order over a frame record, so that the *)
(* order of the statements decides the result and is recorded in initLog.  *)
(* copyFramebufferToBuffer is split at its three parts (bind, one read per *)
(* region, restore); no other method can start while it is running.        *)
(***************************************************************************)
EXTENDS Integers, Sequences, FiniteSets, TLC

VARIABLES
    platform,         \* internal:constants and sys.* of the running process
    glSupported,      \* extension strings the current canvas' context exposes
    glDepthBits,      \* gl.getParameter(gl.DEPTH_BITS) of that context
    glStencilBits,    \* gl.getParameter(gl.STENCIL_BITS) of that context
    glFramebuffer,    \* native FRAMEBUFFER binding of that context
    glState,          \* native pixel-store, raster, depth-stencil and blend state
    canvasElm,        \* the HTML canvas: [width, height]
    dev,              \* fields of the WebGLDevice object
    stateCache,       \* WebGLDevice.stateCache
    copy,             \* position and locals of a running copyFramebufferToBuffer
    initLog,          \* statements the last initialize executed, in order
    created,          \* what the last call, if a factory call, was given and returned
    lastOp,           \* the method called last: "initialize", "destroy", "other"
    mat               \* a Mat3 object (same file, lines 832-1800) and its last call

vars == <<platform, glSupported, glDepthBits, glStencilBits, glFramebuffer,
          glState, canvasElm, dev, stateCache, copy, initLog, created, lastOp, mat>>

\* everything but the Mat3 object
deviceVars == <<platform, glSupported, glDepthBits, glStencilBits, glFramebuffer,
                glState, canvasElm, dev, stateCache, copy, initLog, created, lastOp>>

world == <<platform, glDepthBits, glStencilBits>>

----------------------------------------------------------------------------
(* Bounds *)

MaxExposed == 2      \* most extensions a context exposes (capability runs)
MaxRegions == 2      \* longest region list given to copyFramebufferToBuffer
NumFramebuffers == 2 \* distinct non-null native framebuffer objects
MaxDraws == 2        \* most draw calls submitted between two present() calls
MaxExtent == 2       \* largest width and height of a region read back

----------------------------------------------------------------------------
(* Values *)

NULL == "null"

NULL_FB == 0

Framebuffers == 0..NumFramebuffers

\* extension names initialize resolves, lines 254 and 310-333
ExtNames ==
    { "WEBGL_debug_renderer_info",
      "EXT_texture_filter_anisotropic", "EXT_frag_depth",
      "EXT_shader_texture_lod", "EXT_sRGB", "OES_vertex_array_object",
      "EXT_color_buffer_half_float", "WEBGL_color_buffer_float",
      "WEBGL_compressed_texture_etc1", "WEBGL_compressed_texture_etc",
      "WEBGL_compressed_texture_pvrtc", "WEBGL_compressed_texture_astc",
      "WEBGL_compressed_texture_s3tc", "WEBGL_compressed_texture_s3tc_srgb",
      "WEBGL_debug_shaders", "WEBGL_draw_buffers", "WEBGL_lose_context",
      "WEBGL_depth_texture", "OES_texture_half_float",
      "OES_texture_half_float_linear", "OES_texture_float",
      "OES_texture_float_linear", "OES_standard_derivatives",
      "OES_element_index_uint", "ANGLE_instanced_arrays" }

\* feature flags initialize writes, lines 370-435
ProbedFeatures ==
    { "COLOR_FLOAT", "COLOR_HALF_FLOAT", "TEXTURE_FLOAT", "TEXTURE_HALF_FLOAT",
      "TEXTURE_FLOAT_LINEAR", "TEXTURE_HALF_FLOAT_LINEAR", "FORMAT_RGB8",
      "FORMAT_D16", "FORMAT_D24", "FORMAT_D24S8", "ELEMENT_INDEX_UINT",
      "INSTANCED_ARRAYS", "FORMAT_ETC1", "FORMAT_ETC2", "FORMAT_DXT",
      "FORMAT_PVRTC", "FORMAT_ASTC" }

\* entries of the GFXFeature vector this backend never writes
UnprobedFeatures ==
    { "FORMAT_R11G11B10F", "FORMAT_D16S8", "FORMAT_D32F", "FORMAT_D32FS8", "MSAA" }

Features == ProbedFeatures \cup UnprobedFeatures

\* sys.browserType, sys.os, sys.osMainVersion and the build constants
Platforms ==
    [ browserType : {"uc", "other"},
      os : {"iOS", "Android", "other"},
      osMainVersion : {10, 11},
      ALIPAY : BOOLEAN, RUNTIME_BASED : BOOLEAN, BYTEDANCE : BOOLEAN,
      WECHAT : BOOLEAN, VIVO : BOOLEAN ]

WebPlatform ==
    [ browserType |-> "other", os |-> "other", osMainVersion |-> 11,
      ALIPAY |-> FALSE, RUNTIME_BASED |-> FALSE, BYTEDANCE |-> FALSE,
      WECHAT |-> FALSE, VIVO |-> FALSE ]

\* one platform per quirk rule, and the plain web platform
QuirkPlatforms ==
    { WebPlatform,
      [WebPlatform EXCEPT !.browserType = "uc"],
      [WebPlatform EXCEPT !.BYTEDANCE = TRUE, !.os = "iOS"],
      [WebPlatform EXCEPT !.BYTEDANCE = TRUE, !.os = "Android"],
      [WebPlatform EXCEPT !.RUNTIME_BASED = TRUE],
      [WebPlatform EXCEPT !.RUNTIME_BASED = TRUE, !.VIVO = TRUE],
      [WebPlatform EXCEPT !.os = "iOS", !.osMainVersion = 10],
      [WebPlatform EXCEPT !.WECHAT = TRUE, !.os = "Android"],
      [WebPlatform EXCEPT !.ALIPAY = TRUE] }

\* results of the runtime feature query of line 350-351
RuntimeQueries == {"noLoadRuntime", "noRuntime", "noGetFeature", "rev0", "rev1"}

\* a reference to a resource object: null, or an object together with what
\* its own initialize(info) reported
NoObject == [null |-> TRUE, ok |-> FALSE]

Object(ok) == [null |-> FALSE, ok |-> ok]

\* the resource types of the factory, lines 569-679
CheckedTypes ==
    { "Buffer", "Texture", "Sampler", "DescriptorSet", "Shader", "InputAssembler",
      "RenderPass", "Framebuffer", "DescriptorSetLayout", "PipelineLayout",
      "PipelineState", "Fence", "Queue" }

CommandBufferTypes == {"PRIMARY", "SECONDARY"}

----------------------------------------------------------------------------
(* The Capability Extension Registry *)

\* prefixes with the WebKit name tried first
prefixes_WebkitFirst == <<"WEBKIT_", "", "MOZ_">>

prefixes == <<"", "WEBKIT_", "MOZ_">>

RECURSIVE getExtensionFrom(_, _, _)
\* the loop of getExtension from index i: the first prefixed name the context
\* returns a handle for; the handle is named by the string that resolved it
getExtensionFrom(supported, ext, i) ==
    IF i > Len(prefixes) THEN NULL
    ELSE IF (prefixes[i] \o ext) \in supported THEN prefixes[i] \o ext
    ELSE getExtensionFrom(supported, ext, i + 1)

getExtension(supported, ext) == getExtensionFrom(supported, ext, 1)

RECURSIVE getExtensionQueriesFrom(_, _, _)
\* the names the loop of getExtension passes to gl.getExtension from index i
\* on, in order: it stops at the first name that has a handle
getExtensionQueriesFrom(supported, ext, i) ==
    IF i > Len(prefixes) THEN <<>>
    ELSE IF (prefixes[i] \o ext) \in supported THEN <<prefixes[i] \o ext>>
    ELSE <<prefixes[i] \o ext>> \o getExtensionQueriesFrom(supported, ext, i + 1)

getExtensionQueries(supported, ext) == getExtensionQueriesFrom(supported, ext, 1)

----------------------------------------------------------------------------
(* The device object after construction (field initialisers, lines 162-200; *)
(* the inherited GFXDevice fields start empty)                             *)

NewDevice ==
    [ canvas |-> NULL,
      webGLRC |-> NULL,
      isAntialias |-> TRUE,
      isPremultipliedAlpha |-> TRUE,
      bindingMappingInfo |-> NULL,
      useVAO |-> FALSE,
      destroyShadersImmediately |-> TRUE,
      noCompressedTexSubImage2D |-> FALSE,
      extensions |-> [null |-> TRUE, list |-> {}],
      handles |-> [e \in ExtNames |-> NULL],
      features |-> [x \in Features |-> FALSE],
      renderer |-> "",
      depthBits |-> 0,
      stencilBits |-> 0,
      colorFmt |-> "UNKNOWN",
      depthStencilFmt |-> "UNKNOWN",
      width |-> 0,
      height |-> 0,
      queue |-> NoObject,
      nullTex2D |-> NoObject,
      nullTexCube |-> NoObject,
      numDrawCalls |-> 0,
      numInstances |-> 0,
      numTris |-> 0,
      devicePixelRatio |-> 1,
      nativeWidth |-> 0,
      nativeHeight |-> 0 ]

NewStateCache == [glFramebuffer |-> NULL_FB]

----------------------------------------------------------------------------
(* initialize, statement by statement.  A frame f holds the device fields  *)
(* d, the native framebuffer binding fb, the log of executed statements    *)
(* and ret ("running" until a return statement is reached); gl is the      *)
(* native render state at entry.  env holds the                            *)
(* call's argument and what the environment answers during the call.       *)

Frame(d, fb) == [d |-> d, fb |-> fb, gl |-> glState, log |-> <<>>, ret |-> "running"]

Logged(f, name) == [f EXCEPT !.log = Append(@, name)]

\* lines 204-216
StoreInfo(f, env) ==
    LET d == f.d
        i == env.info
    IN  Logged([f EXCEPT !.d =
            [d EXCEPT !.canvas = "canvas",
                      !.isAntialias =
                          IF i.isAntialias # "undefined" THEN i.isAntialias = "true" ELSE @,
                      !.isPremultipliedAlpha =
                          IF i.isPremultipliedAlpha # "undefined"
                          THEN i.isPremultipliedAlpha = "true" ELSE @,
                      !.bindingMappingInfo =
                          IF i.bindingMappingInfo # "undefined"
                          THEN i.bindingMappingInfo ELSE @]], "storeInfo")

\* GetContext without the check of lines 242-245
GetContext_NoNullCheck(f, env) ==
    CASE env.ctx = "throws" ->
            [Logged(Logged(f, "getContext:throws"), "return false") EXCEPT !.ret = "false"]
      [] env.ctx = "null" ->
            [Logged(f, "getContext:null") EXCEPT !.d.webGLRC = NULL]
      [] OTHER ->
            [Logged(f, "getContext") EXCEPT !.d.webGLRC = "gl"]

\* lines 218-245: a throwing getContext leaves _webGLRC as it was
GetContext(f, env) ==
    CASE env.ctx = "throws" ->
            [Logged(Logged(f, "getContext:throws"), "return false") EXCEPT !.ret = "false"]
      [] env.ctx = "null" ->
            [Logged(Logged(f, "getContext:null"), "return false")
                EXCEPT !.d.webGLRC = NULL, !.ret = "false"]
      [] OTHER ->
            [Logged(f, "getContext") EXCEPT !.d.webGLRC = "gl"]

\* lines 254-261
QueryIdentity(f, env) ==
    LET h == getExtension(env.supported, "WEBGL_debug_renderer_info")
    IN  Logged([f EXCEPT !.d.handles["WEBGL_debug_renderer_info"] = h,
                         !.d.renderer = IF h # NULL THEN "unmasked" ELSE "masked"],
               "queryIdentity")

\* lines 263-272
QueryLimits(f, env) ==
    Logged([f EXCEPT !.d.depthBits = env.depthBits,
                     !.d.stencilBits = env.stencilBits], "queryLimits")

\* DepthOverride that raises smaller depths and leaves larger ones
DepthOverride_OnlyRaises(f, env) ==
    IF env.platform.ALIPAY
    THEN Logged([f EXCEPT !.d.depthBits = IF @ < 24 THEN 24 ELSE @], "quirk:depthBits")
    ELSE f

\* lines 274-276
DepthOverride(f, env) ==
    IF env.platform.ALIPAY
    THEN Logged([f EXCEPT !.d.depthBits = 24], "quirk:depthBits")
    ELSE f

\* an optional number of the info object: <<>> when the property is absent,
\* <<n>> when it is the number n
Property(info, name) == IF name \in DOMAIN info THEN info[name] ELSE <<>>

\* v || other for an optional number v: undefined and 0 are falsy
OrElse(v, other) == IF v = <<>> \/ v[1] = 0 THEN other ELSE v[1]

\* Math.max(a, b)
Max(a, b) == IF a >= b THEN a ELSE b

\* QueryDimensions without the Math.max of lines 281-282
QueryDimensions_NoClamp(f, env) ==
    Logged([f EXCEPT !.d.devicePixelRatio =
                         OrElse(Property(env.info, "devicePixelRatio"), 1),
                     !.d.width = env.canvasWidth,
                     !.d.height = env.canvasHeight,
                     !.d.nativeWidth =
                         OrElse(Property(env.info, "nativeWidth"), env.canvasWidth),
                     !.d.nativeHeight =
                         OrElse(Property(env.info, "nativeHeight"), env.canvasHeight)],
           "queryDimensions")

\* lines 278-282
QueryDimensions(f, env) ==
    Logged([f EXCEPT !.d.devicePixelRatio =
                         OrElse(Property(env.info, "devicePixelRatio"), 1),
                     !.d.width = env.canvasWidth,
                     !.d.height = env.canvasHeight,
                     !.d.nativeWidth =
                         Max(OrElse(Property(env.info, "nativeWidth"), env.canvasWidth), 0),
                     !.d.nativeHeight =
                         Max(OrElse(Property(env.info, "nativeHeight"), env.canvasHeight), 0)],
           "queryDimensions")

\* DeriveFormats taking every depth of 24 bits or more as 24
DeriveFormats_AtLeast24(f, env) ==
    LET d == f.d
        fmt == IF d.depthBits >= 24
               THEN (IF d.stencilBits = 8 THEN "D24S8" ELSE "D24")
               ELSE (IF d.stencilBits = 8 THEN "D16S8" ELSE "D16")
    IN  Logged([f EXCEPT !.d.colorFmt = "RGBA8", !.d.depthStencilFmt = fmt],
               "deriveFormats")

\* lines 284-298
DeriveFormats(f, env) ==
    LET d == f.d
        fmt == IF d.depthBits = 24
               THEN (IF d.stencilBits = 8 THEN "D24S8" ELSE "D24")
               ELSE (IF d.stencilBits = 8 THEN "D16S8" ELSE "D16")
    IN  Logged([f EXCEPT !.d.colorFmt = "RGBA8", !.d.depthStencilFmt = fmt],
               "deriveFormats")

\* lines 300-308
EnumerateExtensions(f, env) ==
    Logged([f EXCEPT !.d.extensions =
                IF env.listNull THEN [null |-> TRUE, list |-> {}]
                ELSE [null |-> FALSE, list |-> env.supported]],
           "enumerateExtensions")

\* ResolveExtensions giving up when 32-bit indices are not available
ResolveExtensions_RequiresIndexUint(f, env) ==
    IF getExtension(env.supported, "OES_element_index_uint") = NULL
    THEN [Logged(f, "return false") EXCEPT !.ret = "false"]
    ELSE Logged([f EXCEPT !.d.handles =
                    [e \in ExtNames |->
                        IF e = "WEBGL_debug_renderer_info" THEN f.d.handles[e]
                        ELSE getExtension(env.supported, e)]],
                "resolveExtensions")

\* lines 310-333
ResolveExtensions(f, env) ==
    Logged([f EXCEPT !.d.handles =
                [e \in ExtNames |->
                    IF e = "WEBGL_debug_renderer_info" THEN f.d.handles[e]
                    ELSE getExtension(env.supported, e)]],
           "resolveExtensions")

\* QuirkInstancing on every browser but UC
QuirkInstancing_ExceptUC(f, env) ==
    IF env.platform.browserType # "uc"
    THEN Logged([f EXCEPT !.d.handles["ANGLE_instanced_arrays"] = NULL],
                "quirk:instancing")
    ELSE f

\* lines 337-340
QuirkInstancing(f, env) ==
    IF env.platform.browserType = "uc"
    THEN Logged([f EXCEPT !.d.handles["ANGLE_instanced_arrays"] = NULL],
                "quirk:instancing")
    ELSE f

\* lines 342-345
QuirkDepthTexture(f, env) ==
    IF env.platform.BYTEDANCE /\ env.platform.os = "iOS"
    THEN Logged([f EXCEPT !.d.handles["WEBGL_depth_texture"] = NULL],
                "quirk:depthTexture")
    ELSE f

\* the condition of lines 350-351
RuntimeLacksVAO(rt) == rt \in {"noLoadRuntime", "noRuntime", "noGetFeature", "rev0"}

\* lines 347-354
QuirkVAO(f, env) ==
    IF env.platform.RUNTIME_BASED /\ ~env.platform.VIVO /\ RuntimeLacksVAO(env.rt)
    THEN Logged([f EXCEPT !.d.handles["OES_vertex_array_object"] = NULL],
                "quirk:vao")
    ELSE f

\* QuirkShaderDestroy flipping the flag instead of clearing it
QuirkShaderDestroy_Toggles(f, env) ==
    LET p == env.platform
    IN  IF (p.os = "iOS" /\ p.osMainVersion <= 10) \/ (p.WECHAT /\ p.os = "Android")
        THEN Logged([f EXCEPT !.d.destroyShadersImmediately = ~@],
                    "quirk:shaderDestroy")
        ELSE f

\* lines 356-360
QuirkShaderDestroy(f, env) ==
    LET p == env.platform
    IN  IF (p.os = "iOS" /\ p.osMainVersion <= 10) \/ (p.WECHAT /\ p.os = "Android")
        THEN Logged([f EXCEPT !.d.destroyShadersImmediately = FALSE],
                    "quirk:shaderDestroy")
        ELSE f

\* QuirkCompressedSub on WeChat for Android alone
QuirkCompressedSub_AndroidOnly(f, env) ==
    IF env.platform.WECHAT /\ env.platform.os = "Android"
    THEN Logged([f EXCEPT !.d.noCompressedTexSubImage2D = TRUE],
                "quirk:compressedSub")
    ELSE f

\* lines 362-365
QuirkCompressedSub(f, env) ==
    IF env.platform.WECHAT
    THEN Logged([f EXCEPT !.d.noCompressedTexSubImage2D = TRUE],
                "quirk:compressedSub")
    ELSE f

\* line 368
ResetFeatures(f, env) ==
    Logged([f EXCEPT !.d.features = [x \in Features |-> FALSE]], "resetFeatures")

\* the extension handle behind each feature flag of lines 370-435
BackingExtension(x) ==
    CASE x = "COLOR_FLOAT" -> "WEBGL_color_buffer_float"
      [] x = "COLOR_HALF_FLOAT" -> "EXT_color_buffer_half_float"
      [] x = "TEXTURE_FLOAT" -> "OES_texture_float"
      [] x = "TEXTURE_HALF_FLOAT" -> "OES_texture_half_float"
      [] x = "TEXTURE_FLOAT_LINEAR" -> "OES_texture_float_linear"
      [] x = "TEXTURE_HALF_FLOAT_LINEAR" -> "OES_texture_half_float_linear"
      [] x \in {"FORMAT_D16", "FORMAT_D24", "FORMAT_D24S8"} -> "WEBGL_depth_texture"
      [] x = "ELEMENT_INDEX_UINT" -> "OES_element_index_uint"
      [] x = "INSTANCED_ARRAYS" -> "ANGLE_instanced_arrays"
      [] x = "FORMAT_ETC1" -> "WEBGL_compressed_texture_etc1"
      [] x = "FORMAT_ETC2" -> "WEBGL_compressed_texture_etc"
      [] x = "FORMAT_DXT" -> "WEBGL_compressed_texture_s3tc"
      [] x = "FORMAT_PVRTC" -> "WEBGL_compressed_texture_pvrtc"
      [] x = "FORMAT_ASTC" -> "WEBGL_compressed_texture_astc"
      [] OTHER -> NULL

\* FeatureAfterWrite without line 394
FeatureAfterWrite_NoRGB8(d, x) ==
    IF x \in ProbedFeatures \ {"FORMAT_RGB8"} /\ d.handles[BackingExtension(x)] # NULL
    THEN TRUE
    ELSE d.features[x]

\* lines 370-435: each if sets its flag, nothing clears one
FeatureAfterWrite(d, x) ==
    IF x = "FORMAT_RGB8" THEN TRUE
    ELSE IF x \in ProbedFeatures /\ d.handles[BackingExtension(x)] # NULL THEN TRUE
    ELSE d.features[x]

WriteFeatures(f, env) ==
    Logged([f EXCEPT !.d.features = [x \in Features |-> FeatureAfterWrite(f.d, x)]],
           "writeFeatures")

\* lines 437-439
SetUseVAO(f, env) ==
    Logged([f EXCEPT !.d.useVAO =
                IF f.d.handles["OES_vertex_array_object"] # NULL THEN TRUE ELSE @],
           "setUseVAO")

\* the parameters initStates sets, lines 752-788, each named by the call
\* and its target and valued by the arguments as written
BaselineState ==
    [ activeTexture |-> "TEXTURE0",
      PACK_ALIGNMENT |-> "1", UNPACK_ALIGNMENT |-> "1", UNPACK_FLIP_Y_WEBGL |-> "0",
      SCISSOR_TEST |-> "disabled",
      CULL_FACE |-> "enabled", cullFace |-> "BACK", frontFace |-> "CCW",
      POLYGON_OFFSET_FILL |-> "disabled", polygonOffset |-> <<"0.0", "0.0">>,
      DEPTH_TEST |-> "enabled", depthMask |-> "true", depthFunc |-> "LESS",
      depthRange |-> <<"0.0", "1.0">>,
      stencilFuncFront |-> <<"ALWAYS", "1", "0xffff">>,
      stencilOpFront |-> <<"KEEP", "KEEP", "KEEP">>,
      stencilMaskFront |-> "0xffff",
      stencilFuncBack |-> <<"ALWAYS", "1", "0xffff">>,
      stencilOpBack |-> <<"KEEP", "KEEP", "KEEP">>,
      stencilMaskBack |-> "0xffff",
      STENCIL_TEST |-> "disabled",
      SAMPLE_ALPHA_TO_COVERAGE |-> "disabled", BLEND |-> "disabled",
      blendEquation |-> <<"FUNC_ADD", "FUNC_ADD">>,
      blendFunc |-> <<"ONE", "ZERO", "ONE", "ZERO">>,
      colorMask |-> <<"true", "true", "true", "true">>,
      blendColor |-> <<"0.0", "0.0", "0.0", "0.0">> ]

\* the same parameters of a context nothing was set on
ContextState == [k \in DOMAIN BaselineState |-> "initial"]

\* initStates without the gl.enable(gl.CULL_FACE) of line 761
initStates_NoCulling(f, env) ==
    Logged([f EXCEPT !.fb = NULL_FB,
                     !.gl = [BaselineState EXCEPT !.CULL_FACE = f.gl.CULL_FACE]],
           "initStates")

\* lines 463 and 750-789; the state cache is not touched
initStates(f, env) ==
    Logged([f EXCEPT !.fb = NULL_FB, !.gl = BaselineState], "initStates")

\* a queue object with its per-frame counters
QueueObject ==
    [null |-> FALSE, ok |-> TRUE, numDrawCalls |-> 0, numInstances |-> 0, numTris |-> 0]

\* createQueue, lines 673-679, applied to the queue initializer's result
createQueue(initOk) == IF initOk THEN QueueObject ELSE NoObject

\* line 466
CreateDefaultQueue(f, env) ==
    Logged([f EXCEPT !.d.queue = createQueue(env.queueOk)], "createQueue")

\* the info of lines 473-480 and 483-491; the first names no layerCount,
\* written 0 here
NullTex2DInfo ==
    [ type |-> "TEX2D", usage |-> "SAMPLED", format |-> "RGBA8", width |-> 2,
      height |-> 2, layerCount |-> 0, flags |-> {"GEN_MIPMAP"} ]

NullTexCubeInfo ==
    [ type |-> "TEX2D", usage |-> "SAMPLED", format |-> "RGBA8", width |-> 2,
      height |-> 2, layerCount |-> 6, flags |-> {"CUBEMAP", "GEN_MIPMAP"} ]

\* a texture object: what its initialize(info) was given and reported, and
\* the copyBuffersToTexture calls made on it
Texture(ok, info) == [null |-> FALSE, ok |-> ok, info |-> info, uploads |-> <<>>]

\* lines 471-491: the initializers' results are not looked at
CreateNullTextures(f, env) ==
    Logged([f EXCEPT !.d.nullTex2D = Texture(env.tex2DOk, NullTex2DInfo),
                     !.d.nullTexCube = Texture(env.texCubeOk, NullTexCubeInfo)],
           "createNullTextures")

\* nullTexRegion of lines 493-511 with texSubres.layerCount = layers
NullTexRegion(layers) ==
    [ texOffset |-> [x |-> 0, y |-> 0, z |-> 0],
      texExtent |-> [width |-> 2, height |-> 2, depth |-> 1],
      texSubres |-> [mipLevel |-> 0, baseArrayLayer |-> 0, layerCount |-> layers] ]

\* a copyBuffersToTexture call with n references to the zero-filled
\* nullTexBuff and the one region
NullTexUpload(n, layers) ==
    [ buffers |-> [i \in 1..n |-> "zeros"], regions |-> <<NullTexRegion(layers)>> ]

\* UploadNullTextures handing one buffer to the cube upload
UploadNullTextures_OneBuffer(f, env) ==
    Logged([f EXCEPT !.d.nullTex2D.uploads = Append(@, NullTexUpload(1, 1)),
                     !.d.nullTexCube.uploads = Append(@, NullTexUpload(1, 6))],
           "uploadNullTextures")

\* lines 513-520
UploadNullTextures(f, env) ==
    Logged([f EXCEPT !.d.nullTex2D.uploads = Append(@, NullTexUpload(1, 1)),
                     !.d.nullTexCube.uploads = Append(@, NullTexUpload(6, 6))],
           "uploadNullTextures")

\* line 522
ReturnTrue(f, env) == [Logged(f, "return true") EXCEPT !.ret = "true"]

\* InitializeSteps with the platform-specific hacks moved below the flags
InitializeSteps_LateQuirks ==
    << "StoreInfo", "GetContext", "QueryIdentity", "QueryLimits", "DepthOverride",
       "QueryDimensions", "DeriveFormats", "EnumerateExtensions",
       "ResolveExtensions", "ResetFeatures", "WriteFeatures", "QuirkInstancing",
       "QuirkDepthTexture", "QuirkVAO", "QuirkShaderDestroy", "QuirkCompressedSub",
       "SetUseVAO", "initStates", "CreateDefaultQueue",
       "CreateNullTextures", "UploadNullTextures", "ReturnTrue" >>

\* InitializeSteps with initStates called after the default queue is created
InitializeSteps_LateBaseline ==
    << "StoreInfo", "GetContext", "QueryIdentity", "QueryLimits", "DepthOverride",
       "QueryDimensions", "DeriveFormats", "EnumerateExtensions",
       "ResolveExtensions", "QuirkInstancing", "QuirkDepthTexture", "QuirkVAO",
       "QuirkShaderDestroy", "QuirkCompressedSub", "ResetFeatures",
       "WriteFeatures", "SetUseVAO", "CreateDefaultQueue", "initStates",
       "CreateNullTextures", "UploadNullTextures", "ReturnTrue" >>

\* the statements of initialize in source order, lines 202-523
InitializeSteps ==
    << "StoreInfo", "GetContext", "QueryIdentity", "QueryLimits", "DepthOverride",
       "QueryDimensions", "DeriveFormats", "EnumerateExtensions",
       "ResolveExtensions", "QuirkInstancing", "QuirkDepthTexture", "QuirkVAO",
       "QuirkShaderDestroy", "QuirkCompressedSub", "ResetFeatures",
       "WriteFeatures", "SetUseVAO", "initStates", "CreateDefaultQueue",
       "CreateNullTextures", "UploadNullTextures", "ReturnTrue" >>

Step(name, f, env) ==
    CASE name = "StoreInfo" -> StoreInfo(f, env)
      [] name = "GetContext" -> GetContext(f, env)
      [] name = "QueryIdentity" -> QueryIdentity(f, env)
      [] name = "QueryLimits" -> QueryLimits(f, env)
      [] name = "DepthOverride" -> DepthOverride(f, env)
      [] name = "QueryDimensions" -> QueryDimensions(f, env)
      [] name = "DeriveFormats" -> DeriveFormats(f, env)
      [] name = "EnumerateExtensions" -> EnumerateExtensions(f, env)
      [] name = "ResolveExtensions" -> ResolveExtensions(f, env)
      [] name = "QuirkInstancing" -> QuirkInstancing(f, env)
      [] name = "QuirkDepthTexture" -> QuirkDepthTexture(f, env)
      [] name = "QuirkVAO" -> QuirkVAO(f, env)
      [] name = "QuirkShaderDestroy" -> QuirkShaderDestroy(f, env)
      [] name = "QuirkCompressedSub" -> QuirkCompressedSub(f, env)
      [] name = "ResetFeatures" -> ResetFeatures(f, env)
      [] name = "WriteFeatures" -> WriteFeatures(f, env)
      [] name = "SetUseVAO" -> SetUseVAO(f, env)
      [] name = "initStates" -> initStates(f, env)
      [] name = "CreateDefaultQueue" -> CreateDefaultQueue(f, env)
      [] name = "CreateNullTextures" -> CreateNullTextures(f, env)
      [] name = "UploadNullTextures" -> UploadNullTextures(f, env)
      [] name = "ReturnTrue" -> ReturnTrue(f, env)

RECURSIVE Run(_, _, _, _)
\* executes steps[i..]; nothing runs after a return statement
Run(steps, i, f, env) ==
    IF i > Len(steps) \/ f.ret # "running" THEN f
    ELSE Run(steps, i + 1, Step(steps[i], f, env), env)

----------------------------------------------------------------------------
(* Mat3, lines 832-1800.  A matrix is the sequence of its fields m00..m08; *)
(* a field holds a number n * (1 / d) as [n |-> n, d |-> d], a plain       *)
(* number having d = 1.  The products with 1.0 / det are kept as written,  *)
(* not reduced.                                                            *)

Number(n) == [n |-> n, d |-> 1]

\* new Mat3(m00, .., m08) before any call: arg are the numbers given, val
\* the fields of the object, op the method called last
NewMat3(m) == [arg |-> m, val |-> [k \in 1..9 |-> Number(m[k])], op |-> "new"]

\* Mat3.invert(out, a), lines 927-957: the fields of out on return
Mat3_invert(a) ==
    LET a00 == a[1]  a01 == a[2]  a02 == a[3]
        a10 == a[4]  a11 == a[5]  a12 == a[6]
        a20 == a[7]  a21 == a[8]  a22 == a[9]
        b01 == a22 * a11 - a12 * a21
        b11 == (-a22) * a10 + a12 * a20
        b21 == a21 * a10 - a11 * a20
        det == a00 * b01 + a01 * b11 + a02 * b21
    IN  IF det = 0
        THEN [k \in 1..9 |-> Number(0)]
        ELSE << [n |-> b01, d |-> det],
                [n |-> (-a22) * a01 + a02 * a21, d |-> det],
                [n |-> a12 * a01 - a02 * a11, d |-> det],
                [n |-> b11, d |-> det],
                [n |-> a22 * a00 - a02 * a20, d |-> det],
                [n |-> (-a12) * a00 + a02 * a10, d |-> det],
                [n |-> b21, d |-> det],
                [n |-> (-a21) * a00 + a01 * a20, d |-> det],
                [n |-> a11 * a00 - a01 * a10, d |-> det] >>

\* this.set(m00, .., m08) with nine numbers, lines 1496-1509
set(m) == [k \in 1..9 |-> Number(m[k])]

\* invert with the first factor of b11 not negated
invert_UnsignedB11(a) ==
    LET a00 == a[1]  a01 == a[2]  a02 == a[3]
        a10 == a[4]  a11 == a[5]  a12 == a[6]
        a20 == a[7]  a21 == a[8]  a22 == a[9]
        b01 == a22 * a11 - a12 * a21
        b11 == a22 * a10 + a12 * a20
        b21 == a21 * a10 - a11 * a20
        det == a00 * b01 + a01 * b11 + a02 * b21
    IN  IF det = 0
        THEN set(<<0, 0, 0, 0, 0, 0, 0, 0, 0>>)
        ELSE << [n |-> b01, d |-> det],
                [n |-> (-a22) * a01 + a02 * a21, d |-> det],
                [n |-> a12 * a01 - a02 * a11, d |-> det],
                [n |-> b11, d |-> det],
                [n |-> a22 * a00 - a02 * a20, d |-> det],
                [n |-> (-a12) * a00 + a02 * a10, d |-> det],
                [n |-> b21, d |-> det],
                [n |-> (-a21) * a00 + a01 * a20, d |-> det],
                [n |-> a11 * a00 - a01 * a10, d |-> det] >>

\* invert(), lines 1589-1617: the fields of this on return
invert(a) ==
    LET a00 == a[1]  a01 == a[2]  a02 == a[3]
        a10 == a[4]  a11 == a[5]  a12 == a[6]
        a20 == a[7]  a21 == a[8]  a22 == a[9]
        b01 == a22 * a11 - a12 * a21
        b11 == (-a22) * a10 + a12 * a20
        b21 == a21 * a10 - a11 * a20
        det == a00 * b01 + a01 * b11 + a02 * b21
    IN  IF det = 0
        THEN set(<<0, 0, 0, 0, 0, 0, 0, 0, 0>>)
        ELSE << [n |-> b01, d |-> det],
                [n |-> (-a22) * a01 + a02 * a21, d |-> det],
                [n |-> a12 * a01 - a02 * a11, d |-> det],
                [n |-> b11, d |-> det],
                [n |-> a22 * a00 - a02 * a20, d |-> det],
                [n |-> (-a12) * a00 + a02 * a10, d |-> det],
                [n |-> b21, d |-> det],
                [n |-> (-a21) * a00 + a01 * a20, d |-> det],
                [n |-> a11 * a00 - a01 * a10, d |-> det] >>

\* Mat3.invert(out, a) on a matrix fresh from its constructor; out is a
\* itself or another object, a is read before out is written
InvertStatic ==
    /\ mat.op = "new"
    /\ mat' = [mat EXCEPT !.val = Mat3_invert(mat.arg), !.op = "Mat3.invert"]
    /\ UNCHANGED deviceVars

\* m.invert() on a matrix fresh from its constructor
InvertInstance ==
    /\ mat.op = "new"
    /\ mat' = [mat EXCEPT !.val = invert(mat.arg), !.op = "invert"]
    /\ UNCHANGED deviceVars

----------------------------------------------------------------------------
(* State after construction, in a process whose platform identity and      *)
(* whose canvas context (extensions, depth and stencil bits) are w         *)

NothingCreated == [method |-> "none", initOk |-> TRUE, ret |-> NULL]

Idle == [pc |-> "idle", src |-> NULL_FB, curFBO |-> NULL_FB, regionsLeft |-> 0,
         nativeAtCall |-> NULL_FB, regions |-> <<>>, view |-> <<>>, reads |-> <<>>]

\* the device after construction, next to the Mat3 object m
InitWith(worlds, m) ==
    /\ mat = m
    /\ \E w \in worlds :
          /\ platform = w.platform
          /\ glSupported = w.supported
          /\ glDepthBits = w.depthBits
          /\ glStencilBits = w.stencilBits
    /\ glFramebuffer = NULL_FB
    /\ glState = ContextState
    /\ canvasElm = [width |-> 1, height |-> 1]
    /\ dev = NewDevice
    /\ stateCache = NewStateCache
    /\ copy = Idle
    /\ initLog = <<>>
    /\ created = NothingCreated
    /\ lastOp = "none"

InitIn(worlds) == InitWith(worlds, NewMat3(<<1, 0, 0, 0, 1, 0, 0, 0, 1>>))

----------------------------------------------------------------------------
(* The public methods *)

\* initialize(info), lines 202-523
\* supported: the extensions exposed by the context of info.canvasElm
initialize(info, ctx, supported, queueOk, tex2DOk, texCubeOk, rt, listNull) ==
    LET env == [ info |-> info, ctx |-> ctx, queueOk |-> queueOk,
                 tex2DOk |-> tex2DOk, texCubeOk |-> texCubeOk, rt |-> rt,
                 listNull |-> listNull, platform |-> platform,
                 supported |-> supported, depthBits |-> glDepthBits,
                 stencilBits |-> glStencilBits,
                 canvasWidth |-> canvasElm.width,
                 canvasHeight |-> canvasElm.height ]
    IN  /\ copy.pc = "idle"
        /\ \E r \in {Run(InitializeSteps, 1, Frame(dev, glFramebuffer), env)} :
              /\ dev' = r.d
              /\ glFramebuffer' = r.fb
              /\ glState' = r.gl
              /\ initLog' = r.log
        /\ glSupported' = supported
        /\ lastOp' = "initialize"
        /\ created' = NothingCreated
        /\ UNCHANGED <<world, mat, canvasElm, stateCache, copy>>

\* the runtime feature query is only made on RUNTIME_BASED && !VIVO builds
QueriesOf(p, rts) == IF p.RUNTIME_BASED /\ ~p.VIVO THEN rts ELSE {"noLoadRuntime"}

\* the canvas handed over is the one seen before, or another one whose
\* context exposes one of I.supported
ContextsOf(I) == IF I.otherCanvas THEN I.supported ELSE {glSupported}

\* initialize with a context: every answer of the environment
InitializeWithContext(I) ==
    \E info \in I.infos, sup \in ContextsOf(I), q \in I.oks, t2 \in I.oks,
       tc \in I.oks, rt \in QueriesOf(platform, I.rts), ln \in I.listNulls :
        initialize(info, "ok", sup, q, t2, tc, rt, ln)

\* initialize without one: nothing else is asked of the environment
InitializeWithoutContext(I) ==
    \E info \in I.infos, ctx \in I.ctxs \ {"ok"} :
        initialize(info, ctx, glSupported, TRUE, TRUE, TRUE, "noLoadRuntime", FALSE)

\* destroy without line 544
destroy_KeepsContext ==
    /\ copy.pc = "idle"
    /\ dev' = [dev EXCEPT !.nullTex2D = NoObject,
                          !.nullTexCube = NoObject,
                          !.queue = NoObject,
                          !.extensions = [null |-> TRUE, list |-> {}]]
    /\ lastOp' = "destroy"
    /\ created' = NothingCreated
    /\ UNCHANGED <<world, glState, mat, glSupported, glFramebuffer, canvasElm, stateCache, copy, initLog>>

\* destroy(), lines 525-545
destroy ==
    /\ copy.pc = "idle"
    /\ dev' = [dev EXCEPT !.nullTex2D = NoObject,
                          !.nullTexCube = NoObject,
                          !.queue = NoObject,
                          !.extensions = [null |-> TRUE, list |-> {}],
                          !.webGLRC = NULL]
    /\ lastOp' = "destroy"
    /\ created' = NothingCreated
    /\ UNCHANGED <<world, glState, mat, glSupported, glFramebuffer, canvasElm, stateCache, copy, initLog>>

\* resize comparing the width alone
resize_WidthOnly(width, height) ==
    /\ copy.pc = "idle"
    /\ IF dev.width # width /\ dev.canvas # NULL
       THEN /\ canvasElm' = [width |-> width, height |-> height]
            /\ dev' = [dev EXCEPT !.width = width, !.height = height]
       ELSE UNCHANGED <<canvasElm, dev>>
    /\ lastOp' = "other"
    /\ created' = NothingCreated
    /\ UNCHANGED <<world, glState, mat, glSupported, glFramebuffer, stateCache, copy, initLog>>

\* resize(width, height), lines 547-555; without a canvas the first
\* assignment throws and nothing is changed
resize(width, height) ==
    /\ copy.pc = "idle"
    /\ IF (dev.width # width \/ dev.height # height) /\ dev.canvas # NULL
       THEN /\ canvasElm' = [width |-> width, height |-> height]
            /\ dev' = [dev EXCEPT !.width = width, !.height = height]
       ELSE UNCHANGED <<canvasElm, dev>>
    /\ lastOp' = "other"
    /\ created' = NothingCreated
    /\ UNCHANGED <<world, glState, mat, glSupported, glFramebuffer, stateCache, copy, initLog>>

\* acquire(), lines 557-559: only the command allocator is touched
acquire ==
    /\ copy.pc = "idle"
    /\ lastOp' = "other"
    /\ created' = NothingCreated
    /\ UNCHANGED <<world, glState, mat, glSupported, glFramebuffer, canvasElm, dev, stateCache, copy,
                   initLog>>

\* present without the queue.clear() of line 566
present_KeepsCounters ==
    /\ copy.pc = "idle"
    /\ IF dev.queue.null
       THEN UNCHANGED dev
       ELSE dev' = [dev EXCEPT !.numDrawCalls = dev.queue.numDrawCalls,
                               !.numInstances = dev.queue.numInstances,
                               !.numTris = dev.queue.numTris]
    /\ lastOp' = "other"
    /\ created' = NothingCreated
    /\ UNCHANGED <<world, glState, mat, glSupported, glFramebuffer, canvasElm, stateCache, copy, initLog>>

\* present that also clears the feature vector
present_ClearsFeatures ==
    /\ copy.pc = "idle"
    /\ IF dev.queue.null
       THEN UNCHANGED dev
       ELSE dev' = [dev EXCEPT !.numDrawCalls = dev.queue.numDrawCalls,
                               !.numInstances = dev.queue.numInstances,
                               !.numTris = dev.queue.numTris,
                               !.queue.numDrawCalls = 0,
                               !.queue.numInstances = 0,
                               !.queue.numTris = 0,
                               !.features = [x \in Features |-> FALSE]]
    /\ lastOp' = "other"
    /\ created' = NothingCreated
    /\ UNCHANGED <<world, glState, mat, glSupported, glFramebuffer, canvasElm, stateCache, copy, initLog>>

\* present(), lines 561-567; without a queue the first read throws and
\* nothing is changed
present ==
    /\ copy.pc = "idle"
    /\ IF dev.queue.null
       THEN UNCHANGED dev
       ELSE dev' = [dev EXCEPT !.numDrawCalls = dev.queue.numDrawCalls,
                               !.numInstances = dev.queue.numInstances,
                               !.numTris = dev.queue.numTris,
                               !.queue.numDrawCalls = 0,
                               !.queue.numInstances = 0,
                               !.queue.numTris = 0]
    /\ lastOp' = "other"
    /\ created' = NothingCreated
    /\ UNCHANGED <<world, glState, mat, glSupported, glFramebuffer, canvasElm, stateCache, copy, initLog>>

\* a submission to the default queue: the queue adds the command buffers'
\* draw calls, instances and triangles to its counters (WebGLQueue, outside
\* this file; present() reads these counters at lines 563-565)
submit(instances, tris) ==
    /\ copy.pc = "idle"
    /\ ~dev.queue.null
    /\ dev.queue.numDrawCalls < MaxDraws
    /\ dev' = [dev EXCEPT !.queue.numDrawCalls = @ + 1,
                          !.queue.numInstances = @ + instances,
                          !.queue.numTris = @ + tris]
    /\ lastOp' = "other"
    /\ created' = NothingCreated
    /\ UNCHANGED <<world, glState, mat, glSupported, glFramebuffer, canvasElm, stateCache, copy, initLog>>

\* what <resource>.initialize(info) leaves of the device fields and of the
\* state cache entry: a failure is local to the call and a success changes
\* neither
initializeResource(d, cache, initOk) == [d |-> d, cache |-> cache]

\* what createCommandBuffer returns, lines 569-575
createCommandBufferResult(initOk) == "object"

\* createCommandBuffer(info), lines 569-575; cmdType is info.type
createCommandBuffer(cmdType, initOk) ==
    /\ copy.pc = "idle"
    /\ created' = [ method |-> "createCommandBuffer", initOk |-> initOk,
                    ret |-> createCommandBufferResult(initOk) ]
    /\ dev' = initializeResource(dev, stateCache, initOk).d
    /\ stateCache' = initializeResource(dev, stateCache, initOk).cache
    /\ lastOp' = "other"
    /\ UNCHANGED <<world, glState, mat, glSupported, glFramebuffer, canvasElm, copy, initLog>>

\* what createBuffer .. createQueue return, lines 577-679
createResult(initOk) == IF initOk THEN "object" ELSE NULL

\* create<Type> whose failure path also lets go of the default queue
create_FailureDropsQueue(type, initOk) ==
    /\ copy.pc = "idle"
    /\ type \in CheckedTypes
    /\ created' = [ method |-> "create", initOk |-> initOk,
                    ret |-> createResult(initOk) ]
    /\ dev' = IF initOk THEN dev ELSE [dev EXCEPT !.queue = NoObject]
    /\ lastOp' = "other"
    /\ UNCHANGED <<world, glState, mat, glSupported, glFramebuffer, canvasElm, stateCache, copy, initLog>>

\* createBuffer(info) .. createQueue(info), lines 577-679: the thirteen
\* methods have the same body, each with its own resource class
create(type, initOk) ==
    /\ copy.pc = "idle"
    /\ type \in CheckedTypes
    /\ created' = [ method |-> "create", initOk |-> initOk,
                    ret |-> createResult(initOk) ]
    /\ dev' = initializeResource(dev, stateCache, initOk).d
    /\ stateCache' = initializeResource(dev, stateCache, initOk).cache
    /\ lastOp' = "other"
    /\ UNCHANGED <<world, glState, mat, glSupported, glFramebuffer, canvasElm, copy, initLog>>

\* copyBuffersToTexture, lines 681-687: the upload goes to the texture object
copyBuffersToTexture ==
    /\ copy.pc = "idle"
    /\ dev.webGLRC # NULL
    /\ lastOp' = "other"
    /\ created' = NothingCreated
    /\ UNCHANGED <<world, glState, mat, glSupported, glFramebuffer, canvasElm, dev, stateCache, copy,
                   initLog>>

\* copyTexImagesToTexture, lines 689-699
copyTexImagesToTexture ==
    /\ copy.pc = "idle"
    /\ dev.webGLRC # NULL
    /\ lastOp' = "other"
    /\ created' = NothingCreated
    /\ UNCHANGED <<world, glState, mat, glSupported, glFramebuffer, canvasElm, dev, stateCache, copy,
                   initLog>>

\* blitFramebuffer, lines 736-737: empty body
blitFramebuffer ==
    /\ copy.pc = "idle"
    /\ lastOp' = "other"
    /\ created' = NothingCreated
    /\ UNCHANGED <<world, glState, mat, glSupported, glFramebuffer, canvasElm, dev, stateCache, copy,
                   initLog>>

\* lines 715-718 and 730-733: bind fbo unless the cache says it is bound;
\* the new native binding and the new cache entry
BindIfNeeded(native, cached, fbo) ==
    IF cached # fbo THEN [native |-> fbo, cached |-> fbo]
    ELSE [native |-> native, cached |-> cached]

\* the elements a view over dstBuffer has room for
ViewLen == MaxExtent * MaxExtent

\* an element of the view: the read that wrote it last (0: none, the
\* element is as the caller left it) and the framebuffer pixel it holds
UntouchedView == [k \in 1..ViewLen |-> [read |-> 0, x |-> 0, y |-> 0]]

\* gl.readPixels(x, y, w, h, format, type, view) of line 727, the i-th of
\* the call: the w * h pixels of the rectangle, row by row, from the first
\* element of the view on
readPixels(region, view, i) ==
    LET w == region.texExtent.width
        h == region.texExtent.height
    IN  [k \in DOMAIN view |->
            IF k <= w * h
            THEN [read |-> i, x |-> region.texOffset.x + ((k - 1) % w),
                              y |-> region.texOffset.y + ((k - 1) \div w)]
            ELSE view[k]]

\* copyFramebufferToBuffer, lines 706-720: save the cached binding, bind the
\* source, build the destination view.  src is gpuFramebuffer.glFramebuffer.
\* viewOk says whether `new ctor(dstBuffer)` of
\* line 720 succeeds: a typed-array constructor throws a RangeError on a
\* buffer whose byte length is no multiple of the element size, and the
\* exception leaves the method after the bind of lines 715-718, with no
\* handler to run lines 730-733.
copyFramebufferToBuffer_bind(src, regions, viewOk) ==
    LET b == BindIfNeeded(glFramebuffer, stateCache.glFramebuffer, src)
    IN  /\ copy.pc = "idle"
        /\ dev.webGLRC # NULL
        /\ copy' = IF viewOk
                   THEN [pc |-> "reading", src |-> src,
                         curFBO |-> stateCache.glFramebuffer,
                         regionsLeft |-> Len(regions),
                         nativeAtCall |-> glFramebuffer,
                         regions |-> regions, view |-> UntouchedView,
                         reads |-> <<>>]
                   ELSE Idle
        /\ glFramebuffer' = b.native
        /\ stateCache' = [stateCache EXCEPT !.glFramebuffer = b.cached]
        /\ lastOp' = "other"
        /\ created' = NothingCreated
        /\ UNCHANGED <<world, glState, mat, glSupported, canvasElm, dev, initLog>>

RECURSIVE ElementsOf(_, _)
\* the pixels of regions[1..n]
ElementsOf(regions, n) ==
    IF n = 0 THEN 0
    ELSE ElementsOf(regions, n - 1)
             + regions[n].texExtent.width * regions[n].texExtent.height

\* the read loop packing the regions one after the other into the view
copyFramebufferToBuffer_read_Packed ==
    LET i == Len(copy.regions) - copy.regionsLeft + 1
        region == copy.regions[i]
        w == region.texExtent.width
        h == region.texExtent.height
        at == ElementsOf(copy.regions, i - 1)
    IN  /\ copy.pc = "reading"
        /\ copy.regionsLeft > 0
        /\ copy' = [copy EXCEPT
                       !.regionsLeft = @ - 1,
                       !.view = [k \in DOMAIN @ |->
                                    IF k > at /\ k <= at + w * h
                                    THEN [read |-> i,
                                          x |-> region.texOffset.x + ((k - at - 1) % w),
                                          y |-> region.texOffset.y + ((k - at - 1) \div w)]
                                    ELSE @[k]],
                       !.reads = Append(@, region)]
        /\ UNCHANGED <<world, glState, mat, glSupported, glFramebuffer, canvasElm, dev, stateCache,
                       initLog, created, lastOp>>

\* lines 722-728: one readPixels per region, in list order
copyFramebufferToBuffer_read ==
    /\ copy.pc = "reading"
    /\ copy.regionsLeft > 0
    /\ LET i == Len(copy.regions) - copy.regionsLeft + 1
       IN  copy' = [copy EXCEPT !.regionsLeft = @ - 1,
                                !.view = readPixels(copy.regions[i], @, i),
                                !.reads = Append(@, copy.regions[i])]
    /\ UNCHANGED <<world, glState, mat, glSupported, glFramebuffer, canvasElm, dev, stateCache, initLog,
                   created, lastOp>>

\* lines 730-733: restore the saved binding
copyFramebufferToBuffer_restore ==
    LET b == BindIfNeeded(glFramebuffer, stateCache.glFramebuffer, copy.curFBO)
    IN  /\ copy.pc = "reading"
        /\ copy.regionsLeft = 0
        /\ glFramebuffer' = b.native
        /\ stateCache' = [stateCache EXCEPT !.glFramebuffer = b.cached]
        /\ copy' = [copy EXCEPT !.pc = "returning"]
        /\ UNCHANGED <<world, glState, mat, glSupported, canvasElm, dev, initLog, created, lastOp>>

\* line 734: the call returns and its locals are gone
copyFramebufferToBuffer_return ==
    /\ copy.pc = "returning"
    /\ copy' = Idle
    /\ UNCHANGED <<world, glState, mat, glSupported, glFramebuffer, canvasElm, dev, stateCache, initLog,
                   created, lastOp>>

----------------------------------------------------------------------------
(* Specifications *)

AllUnprefixed == ExtNames

CanvasSizes == {1, 2}

\* what the environment may answer during a lifecycle run
LifecycleInputs ==
    [ infos |-> { [isAntialias |-> "undefined", isPremultipliedAlpha |-> "undefined",
                   bindingMappingInfo |-> "undefined",
                   nativeWidth |-> <<1>>, nativeHeight |-> <<1>>] },
      ctxs |-> {"ok", "throws", "null"},
      oks |-> BOOLEAN,
      rts |-> {"noLoadRuntime"},
      listNulls |-> {FALSE},
      otherCanvas |-> TRUE,
      supported |-> { {}, AllUnprefixed } ]

LifecycleWorlds ==
    [ platform : { WebPlatform },
      supported : { {} },
      depthBits : {24},
      stencilBits : {8} ]

Init == InitIn(LifecycleWorlds)

Initialize == InitializeWithContext(LifecycleInputs)

InitializeFails == InitializeWithoutContext(LifecycleInputs)

Destroy == destroy

Resize == \E w \in CanvasSizes, h \in CanvasSizes : resize(w, h)

Acquire == acquire

Present == present

CreateCommandBuffer ==
    \E t \in CommandBufferTypes, ok \in BOOLEAN : createCommandBuffer(t, ok)

Create == \E t \in CheckedTypes, ok \in BOOLEAN : create(t, ok)

CopyBuffersToTexture == copyBuffersToTexture

CopyTexImagesToTexture == copyTexImagesToTexture

BlitFramebuffer == blitFramebuffer

\* a region of one pixel at the origin
UnitRegion ==
    [ texOffset |-> [x |-> 0, y |-> 0, z |-> 0],
      texExtent |-> [width |-> 1, height |-> 1, depth |-> 1] ]

\* the region list is not read before the view is built; a lifecycle run
\* reads back the empty list and the longest one
CopyBind ==
    \/ \E src \in Framebuffers, n \in {0, MaxRegions} :
          copyFramebufferToBuffer_bind(src, [i \in 1..n |-> UnitRegion], TRUE)
    \/ \E src \in Framebuffers : copyFramebufferToBuffer_bind(src, <<>>, FALSE)

CopyRead == copyFramebufferToBuffer_read

CopyRestore == copyFramebufferToBuffer_restore

CopyReturn == copyFramebufferToBuffer_return

Next ==
    \/ Initialize
    \/ InitializeFails
    \/ Destroy
    \/ Resize
    \/ Acquire
    \/ Present
    \/ CreateCommandBuffer
    \/ Create
    \/ CopyBuffersToTexture
    \/ CopyTexImagesToTexture
    \/ BlitFramebuffer
    \/ CopyBind
    \/ CopyRead
    \/ CopyRestore
    \/ CopyReturn

Spec == Init /\ [][Next]_vars

----------------------------------------------------------------------------
(* Capability negotiation: initialize alone, on every platform of the      *)
(* quirk table and for every small set of exposed extensions               *)

RECURSIVE SubsetsUpTo(_, _)
\* the subsets of S with at most k elements
SubsetsUpTo(S, k) ==
    IF k = 0 THEN {{}}
    ELSE LET smaller == SubsetsUpTo(S, k - 1)
         IN  smaller \cup {s \cup {e} : s \in smaller, e \in S}

CapabilityWorlds ==
    [ platform : QuirkPlatforms,
      supported : SubsetsUpTo(ExtNames, MaxExposed),
      depthBits : {16, 24},
      stencilBits : {8} ]

CapabilityInputs ==
    [ infos |-> { [isAntialias |-> "false", isPremultipliedAlpha |-> "undefined",
                   bindingMappingInfo |-> "mapping"] },
      ctxs |-> {"ok"},
      oks |-> {TRUE},
      rts |-> RuntimeQueries,
      listNulls |-> {FALSE},
      otherCanvas |-> FALSE,
      supported |-> {} ]

InitCaps ==
    /\ InitIn(CapabilityWorlds)

Negotiate == InitializeWithContext(CapabilityInputs)

NextCaps == Negotiate

SpecCaps == InitCaps /\ [][NextCaps]_vars

----------------------------------------------------------------------------
(* Probing: initialize alone, on contexts that expose extensions under     *)
(* vendor prefixes and report every depth and stencil size                 *)

\* extensions the probing contexts expose, under any of the three spellings
VendorNames == {"OES_texture_float", "ANGLE_instanced_arrays"}

VendorSpellings ==
    {prefixes[i] \o e : i \in DOMAIN prefixes, e \in VendorNames}

ProbeWorlds ==
    [ platform : { WebPlatform, [WebPlatform EXCEPT !.ALIPAY = TRUE] },
      supported : SUBSET VendorSpellings,
      depthBits : {16, 24, 32},
      stencilBits : {0, 8} ]

ProbeInputs ==
    [ infos |-> { [isAntialias |-> "true", isPremultipliedAlpha |-> "false",
                   bindingMappingInfo |-> "undefined"] },
      ctxs |-> {"ok"},
      oks |-> {TRUE},
      rts |-> RuntimeQueries,
      listNulls |-> {FALSE},
      otherCanvas |-> FALSE,
      supported |-> {} ]

InitProbe == InitIn(ProbeWorlds)

Probe == InitializeWithContext(ProbeInputs)

NextProbe == Probe

SpecProbe == InitProbe /\ [][NextProbe]_vars

----------------------------------------------------------------------------
(* Frames: an initialized device, submissions to its queue and present     *)

FrameInputs ==
    [ infos |-> { [isAntialias |-> "undefined", isPremultipliedAlpha |-> "undefined",
                   bindingMappingInfo |-> "undefined"] },
      ctxs |-> {"ok"},
      oks |-> {TRUE},
      rts |-> {"noLoadRuntime"},
      listNulls |-> {FALSE},
      otherCanvas |-> FALSE,
      supported |-> {} ]

\* instances and triangles one submission may add
DrawSizes == {1, 2}

InitFrame == InitIn(LifecycleWorlds)

FrameInitialize == InitializeWithContext(FrameInputs)

Submit == \E i \in DrawSizes, t \in DrawSizes : submit(i, t)

NextFrame ==
    \/ FrameInitialize
    \/ Submit
    \/ Present

SpecFrame == InitFrame /\ [][NextFrame]_vars

----------------------------------------------------------------------------
(* Absent capabilities: initialize alone on the web and the UC browser,    *)
(* over every small set of exposed extensions, the extension list being    *)
(* returned or null                                                        *)

AbsentWorlds ==
    [ platform : { WebPlatform, [WebPlatform EXCEPT !.browserType = "uc"] },
      supported : SubsetsUpTo(ExtNames, MaxExposed),
      depthBits : {24},
      stencilBits : {8} ]

AbsentInputs ==
    [ infos |-> { [isAntialias |-> "undefined", isPremultipliedAlpha |-> "undefined",
                   bindingMappingInfo |-> "undefined"] },
      ctxs |-> {"ok"},
      oks |-> {TRUE},
      rts |-> {"noLoadRuntime"},
      listNulls |-> BOOLEAN,
      otherCanvas |-> FALSE,
      supported |-> {} ]

InitAbsent == InitIn(AbsentWorlds)

NegotiateAbsent == InitializeWithContext(AbsentInputs)

NextAbsent == NegotiateAbsent

SpecAbsent == InitAbsent /\ [][NextAbsent]_vars

----------------------------------------------------------------------------
(* Re-initialization: initialize, with and without a context, and destroy  *)
(* on one device object, on runtime-based and other platforms; the canvas  *)
(* handed over may be another one and the runtime may answer differently   *)

VAOContexts == { {}, {"OES_vertex_array_object"} }

ReinitWorlds ==
    [ platform : { WebPlatform,
                   [WebPlatform EXCEPT !.RUNTIME_BASED = TRUE],
                   [WebPlatform EXCEPT !.RUNTIME_BASED = TRUE, !.VIVO = TRUE] },
      supported : VAOContexts,
      depthBits : {24},
      stencilBits : {8} ]

ReinitInputs ==
    [ infos |-> { [isAntialias |-> "undefined", isPremultipliedAlpha |-> "undefined",
                   bindingMappingInfo |-> "undefined"] },
      ctxs |-> {"ok", "throws", "null"},
      oks |-> {TRUE},
      rts |-> RuntimeQueries,
      listNulls |-> BOOLEAN,
      otherCanvas |-> TRUE,
      supported |-> VAOContexts ]

InitReinit == InitIn(ReinitWorlds)

Reinitialize == InitializeWithContext(ReinitInputs)

ReinitializeFails == InitializeWithoutContext(ReinitInputs)

NextReinit ==
    \/ Reinitialize
    \/ ReinitializeFails
    \/ Destroy

SpecReinit == InitReinit /\ [][NextReinit]_vars

----------------------------------------------------------------------------
(* Platforms: initialize alone, on every platform identity, on a context   *)
(* that exposes nothing and on one that exposes every extension            *)

PlatformWorlds ==
    [ platform : Platforms,
      supported : { {}, AllUnprefixed },
      depthBits : {24},
      stencilBits : {8} ]

PlatformInputs ==
    [ infos |-> { [isAntialias |-> "undefined", isPremultipliedAlpha |-> "undefined",
                   bindingMappingInfo |-> "undefined"] },
      ctxs |-> {"ok"},
      oks |-> {TRUE},
      rts |-> {"noLoadRuntime", "rev1"},
      listNulls |-> {FALSE},
      otherCanvas |-> FALSE,
      supported |-> {} ]

InitPlatform == InitIn(PlatformWorlds)

InitializeOnPlatform == InitializeWithContext(PlatformInputs)

NextPlatform == InitializeOnPlatform

SpecPlatform == InitPlatform /\ [][NextPlatform]_vars

----------------------------------------------------------------------------
(* Read-back: copyFramebufferToBuffer on an initialized device, over every *)
(* list of at most MaxRegions regions of up to MaxExtent x MaxExtent pixels *)

\* width and height of a region: one pixel, one row, the whole extent
RegionShapes == { <<1, 1>>, <<MaxExtent, 1>>, <<MaxExtent, MaxExtent>> }

ReadRegions ==
    { [ texOffset |-> [x |-> x, y |-> 0, z |-> 0],
        texExtent |-> [width |-> s[1], height |-> s[2], depth |-> 1] ]
      : x \in {0, 1}, s \in RegionShapes }

RegionLists == UNION { [1..n -> ReadRegions] : n \in 0..MaxRegions }

CopyBindRegions ==
    \E src \in Framebuffers, regions \in RegionLists :
        copyFramebufferToBuffer_bind(src, regions, TRUE)

NextCopy ==
    \/ FrameInitialize
    \/ CopyBindRegions
    \/ CopyRead
    \/ CopyRestore
    \/ CopyReturn

SpecCopy == InitFrame /\ [][NextCopy]_vars

----------------------------------------------------------------------------
(* Dimensions: initialize with every native-size override and pixel ratio, *)
(* on a canvas that resize gives every size                                *)

\* native width and height the info may carry, each absent, negative, zero
\* or positive
SizeOverrides ==
    { << <<>>, <<-1>> >>, << <<-1>>, <<3>> >>, << <<0>>, <<>> >>, << <<3>>, <<0>> >>,
      << <<3>>, <<3>> >>, << <<-1>>, <<-1>> >> }

\* a pixel ratio the info may carry: absent, zero, a ratio
PixelRatios == { <<>>, <<0>>, <<2>> }

DimensionInfos ==
    { [isAntialias |-> "undefined", isPremultipliedAlpha |-> "undefined",
       bindingMappingInfo |-> "undefined", devicePixelRatio |-> r,
       nativeWidth |-> s[1], nativeHeight |-> s[2]]
      : r \in PixelRatios, s \in SizeOverrides }

DimensionInputs ==
    [ infos |-> DimensionInfos,
      ctxs |-> {"ok"},
      oks |-> {TRUE},
      rts |-> {"noLoadRuntime"},
      listNulls |-> {FALSE},
      otherCanvas |-> FALSE,
      supported |-> {} ]

InitializeDimensions == InitializeWithContext(DimensionInputs)

NextDimensions ==
    \/ InitializeDimensions
    \/ Resize

SpecDimensions == InitFrame /\ [][NextDimensions]_vars

----------------------------------------------------------------------------
(* Matrices: Mat3.invert and invert on every matrix with fields in Fields  *)

Fields == {-1, 0, 2}

Matrices == [1..9 -> Fields]

InitMat3 == \E m \in Matrices : InitWith(LifecycleWorlds, NewMat3(m))

NextMat3 ==
    \/ InvertStatic
    \/ InvertInstance

SpecMat3 == InitMat3 /\ [][NextMat3]_vars

----------------------------------------------------------------------------
(* Properties *)

Last(log) == IF log = <<>> THEN "" ELSE log[Len(log)]

Logs(log, name) == \E i \in DOMAIN log : log[i] = name

ReturnedTrue == lastOp = "initialize" /\ Last(initLog) = "return true"

ContextFailed(log) == Logs(log, "getContext:throws") \/ Logs(log, "getContext:null")

\* C1: in every reachable state stateCache.glFramebuffer is the framebuffer
\* bound at the native FRAMEBUFFER binding point, so no operation rebinds
\* the native point without updating the cache
C1_CacheIsNativeBinding == stateCache.glFramebuffer = glFramebuffer

\* C2: when copyFramebufferToBuffer returns, the native binding and the
\* cache entry are what they were when it was called
C2_BindingRestored ==
    copy.pc = "returning" =>
        /\ glFramebuffer = copy.nativeAtCall
        /\ stateCache.glFramebuffer = copy.curFBO

\* C3: initialize returns true only if the default queue and both null
\* textures were constructed successfully
C3_TrueOnlyIfEveryStepCompleted ==
    ReturnedTrue =>
        /\ ~dev.queue.null
        /\ dev.nullTex2D.ok
        /\ dev.nullTexCube.ok

\* C4: an initialize whose context acquisition throws or returns nothing
\* returns false and sets no handle, flag, limit, queue or null texture
C4_FailedContextSetsNothing ==
    [][ (lastOp' = "initialize" /\ ContextFailed(initLog')) =>
            /\ Last(initLog') = "return false"
            /\ dev'.handles = dev.handles
            /\ dev'.features = dev.features
            /\ dev'.extensions = dev.extensions
            /\ dev'.depthBits = dev.depthBits
            /\ dev'.stencilBits = dev.stencilBits
            /\ dev'.depthStencilFmt = dev.depthStencilFmt
            /\ dev'.useVAO = dev.useVAO
            /\ dev'.queue = dev.queue
            /\ dev'.nullTex2D = dev.nullTex2D
            /\ dev'.nullTexCube = dev.nullTexCube ]_vars

\* an initialized device whose re-initialization found no context
C4_Witness ==
    /\ lastOp = "initialize"
    /\ ContextFailed(initLog)
    /\ dev.features["FORMAT_RGB8"]
    /\ ~dev.nullTex2D.null

\* C5: destroy after a failed initialize leaves the null textures, the
\* queue and the context null
C5_DestroyAfterFailure ==
    (lastOp = "destroy" /\ Last(initLog) = "return false") =>
        /\ dev.nullTex2D.null
        /\ dev.nullTexCube.null
        /\ dev.queue.null
        /\ dev.webGLRC = NULL

\* destroy has run on a device whose last initialize returned false
C5_Witness ==
    /\ lastOp = "destroy"
    /\ Last(initLog) = "return false"
    /\ dev.canvas # NULL

\* C6: every factory method returns the object exactly when the object's
\* initialize reported success, and null otherwise
C6_ObjectOnlyIfInitialized ==
    created.method # "none" => ((created.ret # NULL) <=> created.initOk)

\* C7: a linear-filtering flag is never true while its base flag is false
C7_LinearImpliesBase ==
    /\ dev.features["TEXTURE_FLOAT_LINEAR"] => dev.features["TEXTURE_FLOAT"]
    /\ dev.features["TEXTURE_HALF_FLOAT_LINEAR"] => dev.features["TEXTURE_HALF_FLOAT"]

\* the handle the claim names for each flag it lists
C8_Handle(x) ==
    CASE x = "COLOR_FLOAT" -> "WEBGL_color_buffer_float"
      [] x = "COLOR_HALF_FLOAT" -> "EXT_color_buffer_half_float"
      [] x = "TEXTURE_FLOAT" -> "OES_texture_float"
      [] x = "TEXTURE_HALF_FLOAT" -> "OES_texture_half_float"
      [] x = "TEXTURE_FLOAT_LINEAR" -> "OES_texture_float_linear"
      [] x = "TEXTURE_HALF_FLOAT_LINEAR" -> "OES_texture_half_float_linear"
      [] x = "FORMAT_D16" -> "WEBGL_depth_texture"
      [] x = "FORMAT_D24" -> "WEBGL_depth_texture"
      [] x = "FORMAT_D24S8" -> "WEBGL_depth_texture"
      [] x = "ELEMENT_INDEX_UINT" -> "OES_element_index_uint"
      [] x = "INSTANCED_ARRAYS" -> "ANGLE_instanced_arrays"
      [] x = "FORMAT_ETC1" -> "WEBGL_compressed_texture_etc1"
      [] x = "FORMAT_ETC2" -> "WEBGL_compressed_texture_etc"
      [] x = "FORMAT_DXT" -> "WEBGL_compressed_texture_s3tc"
      [] x = "FORMAT_PVRTC" -> "WEBGL_compressed_texture_pvrtc"
      [] x = "FORMAT_ASTC" -> "WEBGL_compressed_texture_astc"

C8_Listed ==
    { "COLOR_FLOAT", "COLOR_HALF_FLOAT", "TEXTURE_FLOAT", "TEXTURE_HALF_FLOAT",
      "FORMAT_D16", "FORMAT_D24", "FORMAT_D24S8", "ELEMENT_INDEX_UINT",
      "INSTANCED_ARRAYS", "FORMAT_ETC1", "FORMAT_ETC2", "FORMAT_DXT",
      "FORMAT_PVRTC", "FORMAT_ASTC" }

C8_Linear == {"TEXTURE_FLOAT_LINEAR", "TEXTURE_HALF_FLOAT_LINEAR"}

C8_FlagsAre(backed) ==
    \A x \in Features :
        dev.features[x] =
            IF x \in backed THEN dev.handles[C8_Handle(x)] # NULL
            ELSE x = "FORMAT_RGB8"

\* C8 as claimed: after a successful initialize each listed flag is true iff
\* its handle is non-null, FORMAT_RGB8 is true, every other flag is false
C8_FlagsFollowListedHandles == ReturnedTrue => C8_FlagsAre(C8_Listed)

C8_Base(x) ==
    IF x = "TEXTURE_FLOAT_LINEAR" THEN "OES_texture_float" ELSE "OES_texture_half_float"

\* C8 as amended: after a successful initialize each listed flag is true iff
\* its handle is non-null, FORMAT_RGB8 is true, each of the two linear
\* filtering flags is false when its linear-filtering handle is null and
\* true when that handle and the base format's handle are both non-null,
\* and every other flag is false
C8_FlagsFollowHandles ==
    ReturnedTrue =>
        \A x \in Features :
            CASE x \in C8_Listed ->
                    dev.features[x] = (dev.handles[C8_Handle(x)] # NULL)
              [] x \in C8_Linear ->
                    /\ dev.features[x] => dev.handles[C8_Handle(x)] # NULL
                    /\ (dev.handles[C8_Handle(x)] # NULL /\ dev.handles[C8_Base(x)] # NULL)
                          => dev.features[x]
              [] OTHER -> dev.features[x] = (x = "FORMAT_RGB8")

\* a successful initialize on the UC browser: the context exposes
\* instancing and linear float filtering, the quirk dropped the first
C8_Witness ==
    /\ ReturnedTrue
    /\ "ANGLE_instanced_arrays" \in glSupported
    /\ dev.handles["ANGLE_instanced_arrays"] = NULL
    /\ ~dev.features["INSTANCED_ARRAYS"]
    /\ dev.features["TEXTURE_FLOAT_LINEAR"]

LaterOperation ==
    \/ Resize \/ Acquire \/ Present \/ CreateCommandBuffer \/ Create
    \/ CopyBuffersToTexture \/ CopyTexImagesToTexture \/ BlitFramebuffer
    \/ CopyBind \/ CopyRead \/ CopyRestore \/ CopyReturn

\* C9: once initialize has returned true, none of resize, acquire,
\* present, create<Type>, copyBuffersToTexture, copyTexImagesToTexture,
\* copyFramebufferToBuffer, blitFramebuffer changes a feature flag or a
\* capability handle
C9_FlagsAndHandlesImmutable ==
    [][ (Logs(initLog, "return true") /\ LaterOperation) =>
            (dev'.features = dev.features /\ dev'.handles = dev.handles) ]_vars

\* present has copied the counters of an initialized device with handles
C9_Witness ==
    /\ lastOp = "other"
    /\ Logs(initLog, "return true")
    /\ ~dev.queue.null
    /\ dev.width = 2
    /\ dev.features["INSTANCED_ARRAYS"]
    /\ dev.handles["ANGLE_instanced_arrays"] # NULL

QuirkEntries ==
    { "quirk:instancing", "quirk:depthTexture", "quirk:vao", "quirk:shaderDestroy",
      "quirk:compressedSub", "quirk:depthBits" }

ProbeEntries ==
    {"queryIdentity", "queryLimits", "enumerateExtensions", "resolveExtensions"}

FlagEntries == {"resetFeatures", "writeFeatures"}

\* every entry of `quirks` in the log comes after every probing entry and
\* before every write to the feature vector
QuirksBetween(log, quirks) ==
    \A i \in DOMAIN log :
        log[i] \in quirks =>
            /\ \A j \in DOMAIN log : log[j] \in ProbeEntries => j < i
            /\ \A j \in DOMAIN log : log[j] \in FlagEntries => i < j

QuirkSteps ==
    << "DepthOverride", "QuirkInstancing", "QuirkDepthTexture", "QuirkVAO",
       "QuirkShaderDestroy", "QuirkCompressedSub" >>

\* the device fields after the quirk rules ran on d
ApplyQuirks(d, rt) ==
    Run(QuirkSteps, 1, Frame(d, NULL_FB), [platform |-> platform, rt |-> rt]).d

\* the device as raw probing of the current context leaves it
ProbedDevice ==
    [dev EXCEPT !.handles = [e \in ExtNames |-> getExtension(glSupported, e)],
                !.depthBits = glDepthBits]

\* what the quirk rules decide
QuirkState(d) ==
    << d.handles, d.destroyShadersImmediately, d.noCompressedTexSubImage2D,
       d.depthBits >>

\* C11: on every platform, for every answer of the runtime feature query and
\* every probed handle state, the quirk rules applied twice leave the same
\* handles and behavioural flags as applied once; initialize leaves the
\* device as one application to the probed state does
C11_QuirksIdempotent ==
    lastOp = "initialize" =>
        /\ \A rt \in RuntimeQueries :
              \A d \in {ProbedDevice, dev} :
                  QuirkState(ApplyQuirks(ApplyQuirks(d, rt), rt))
                      = QuirkState(ApplyQuirks(d, rt))
        /\ \E rt \in QueriesOf(platform, RuntimeQueries) :
              QuirkState(dev) = QuirkState(ApplyQuirks(ProbedDevice, rt))

\* initialize ran on a runtime whose VAO revision is too low, on a context
\* that exposes the VAO extension, and dropped the handle
C11_Witness ==
    /\ lastOp = "initialize"
    /\ platform.RUNTIME_BASED
    /\ "OES_vertex_array_object" \in glSupported
    /\ dev.handles["OES_vertex_array_object"] = NULL
    /\ ProbedDevice.handles["OES_vertex_array_object"] # NULL

\* the format the claim gives for a pair of sizes
C12_Format(depthBits, stencilBits) ==
    CASE depthBits = 24 /\ stencilBits = 8 -> "D24S8"
      [] depthBits = 24 /\ stencilBits = 0 -> "D24"
      [] depthBits = 16 /\ stencilBits = 8 -> "D16S8"
      [] depthBits = 16 /\ stencilBits = 0 -> "D16"
      [] OTHER -> IF depthBits = 24
                  THEN (IF stencilBits = 8 THEN "D24S8" ELSE "D24")
                  ELSE (IF stencilBits = 8 THEN "D16S8" ELSE "D16")

\* C12: the depth-stencil format initialize derives is the claim's function
\* of the device's depth and stencil bits, one of the four formats for every
\* pair, and the derivation does not make initialize fail
C12_FormatIsFunctionOfBits ==
    lastOp = "initialize" =>
        /\ dev.depthStencilFmt = C12_Format(dev.depthBits, dev.stencilBits)
        /\ dev.depthStencilFmt \in {"D24S8", "D24", "D16S8", "D16"}
        /\ dev.colorFmt = "RGBA8"
        /\ Last(initLog) = "return true"

\* initialize ran on a context that reports 32 depth bits and 8 stencil bits
C12_Witness ==
    /\ lastOp = "initialize"
    /\ dev.depthBits = 32
    /\ dev.stencilBits = 8
    /\ dev.depthStencilFmt = "D16S8"

\* the first of name, WEBKIT_name, MOZ_name the context has, or null
C13_FirstOf(supported, ext) ==
    IF ext \in supported THEN ext
    ELSE IF ("WEBKIT_" \o ext) \in supported THEN "WEBKIT_" \o ext
    ELSE IF ("MOZ_" \o ext) \in supported THEN "MOZ_" \o ext
    ELSE NULL

\* C13: getExtension queries name, WEBKIT_name, MOZ_name in that order,
\* stops at the first that has a handle and returns it (the unprefixed one
\* when both spellings exist), and returns null after three queries when
\* none has
C13_FirstMatchWins ==
    ReturnedTrue =>
        \A e \in ExtNames :
            LET q == getExtensionQueries(glSupported, e)
                order == <<e, "WEBKIT_" \o e, "MOZ_" \o e>>
                h == dev.handles[e]
            IN  /\ h = C13_FirstOf(glSupported, e)
                /\ Len(q) \in 1..3
                /\ \A i \in DOMAIN q : q[i] = order[i]
                /\ \A i \in 1..(Len(q) - 1) : q[i] \notin glSupported
                /\ h # NULL => q[Len(q)] = h
                /\ h = NULL => Len(q) = 3 /\ q[3] \notin glSupported

\* one extension exposed both unprefixed and under WEBKIT_, another only
\* under MOZ_
C13_Witness ==
    /\ ReturnedTrue
    /\ {"OES_texture_float", "WEBKIT_OES_texture_float"} \subseteq glSupported
    /\ dev.handles["OES_texture_float"] = "OES_texture_float"
    /\ dev.handles["ANGLE_instanced_arrays"] = "MOZ_ANGLE_instanced_arrays"
    /\ dev.handles["OES_vertex_array_object"] = NULL

\* C14: resize(w, h) with the cached width and height changes nothing; with
\* other values it sets the canvas and the cached width and height to
\* exactly (w, h); either way the cached size is then (w, h), so that a
\* second resize(w, h) changes nothing.  (On a device that was never given
\* a canvas the assignment of line 550 throws before anything is written.)
C14_ResizeExact ==
    [][ \A w \in CanvasSizes, h \in CanvasSizes :
            resize(w, h) =>
                IF dev.width = w /\ dev.height = h
                THEN UNCHANGED <<dev, canvasElm>>
                ELSE IF dev.canvas # NULL
                THEN /\ dev' = [dev EXCEPT !.width = w, !.height = h]
                     /\ canvasElm' = [width |-> w, height |-> h]
                     /\ dev'.width = w /\ dev'.height = h
                ELSE UNCHANGED <<dev, canvasElm>> ]_vars

\* resize has changed one dimension of an initialized device
C14_Witness ==
    /\ lastOp = "other"
    /\ dev.canvas # NULL
    /\ dev.width = 2 /\ dev.height = 1
    /\ canvasElm = [width |-> 2, height |-> 1]

\* C15: present() copies the counters the default queue accumulated into
\* the device's draw-call, instance and triangle stats and clears the
\* queue's counters; a present() that finds them cleared, as the previous
\* present() left them, sets all three stats to zero
C15_PresentMovesCounters ==
    [][ (Present /\ ~dev.queue.null) =>
            /\ dev'.numDrawCalls = dev.queue.numDrawCalls
            /\ dev'.numInstances = dev.queue.numInstances
            /\ dev'.numTris = dev.queue.numTris
            /\ dev'.queue.numDrawCalls = 0
            /\ dev'.queue.numInstances = 0
            /\ dev'.queue.numTris = 0
            /\ (dev.queue.numDrawCalls = 0 /\ dev.queue.numInstances = 0
                    /\ dev.queue.numTris = 0)
                  => (dev'.numDrawCalls = 0 /\ dev'.numInstances = 0
                        /\ dev'.numTris = 0) ]_vars

\* present() after two submissions of different sizes
C15_Witness ==
    /\ dev.numDrawCalls = 2
    /\ dev.numInstances = 3
    /\ dev.numTris = 4
    /\ dev.queue.numDrawCalls = 0
    /\ dev.queue.numInstances = 0
    /\ dev.queue.numTris = 0

\* the layers of a texture: one when its info names no layerCount
C16_Layers(tex) ==
    IF tex.info.layerCount = 0 THEN 1 ELSE tex.info.layerCount

\* the layers the regions of an upload cover with a zero-filled buffer each
C16_ZeroedLayers(upload) ==
    IF \A i \in DOMAIN upload.buffers : upload.buffers[i] = "zeros"
    THEN UNION { { l \in r.texSubres.baseArrayLayer ..
                         (r.texSubres.baseArrayLayer + r.texSubres.layerCount - 1) :
                       l + 1 \in DOMAIN upload.buffers }
                 : r \in { upload.regions[i] : i \in DOMAIN upload.regions } }
    ELSE {}

C16_Ready(tex, layers, flags) ==
    /\ ~tex.null
    /\ tex.ok
    /\ tex.info.width = 2 /\ tex.info.height = 2
    /\ tex.info.format = "RGBA8"
    /\ tex.info.flags = flags
    /\ C16_Layers(tex) = layers
    /\ \E i \in DOMAIN tex.uploads :
          C16_ZeroedLayers(tex.uploads[i]) = 0..(layers - 1)

\* C16: after initialize returned true both null textures exist, are
\* initialized 2x2 RGBA8 mipmapped textures of 1 and 6 layers, and a
\* zero-filled buffer was uploaded to every layer of each
C16_NullTexturesReady ==
    ReturnedTrue =>
        /\ C16_Ready(dev.nullTex2D, 1, {"GEN_MIPMAP"})
        /\ C16_Ready(dev.nullTexCube, 6, {"CUBEMAP", "GEN_MIPMAP"})

\* C17: after a successful initialize the native render state is the
\* baseline: pack and unpack alignment 1 without row flip, the default
\* framebuffer bound, back-face culling enabled with counter-clockwise
\* winding, polygon offset disabled with zero bias, depth test enabled with
\* depth write, LESS and range [0,1], stencil test disabled with ALWAYS,
\* KEEP/KEEP/KEEP and a full write mask on both faces, alpha-to-coverage and
\* blending disabled with FUNC_ADD, ONE/ZERO and an open colour mask
C17_BaselineState ==
    ReturnedTrue =>
        /\ glState.PACK_ALIGNMENT = "1" /\ glState.UNPACK_ALIGNMENT = "1"
        /\ glState.UNPACK_FLIP_Y_WEBGL = "0"
        /\ glFramebuffer = NULL_FB
        /\ glState.CULL_FACE = "enabled" /\ glState.cullFace = "BACK"
        /\ glState.frontFace = "CCW"
        /\ glState.POLYGON_OFFSET_FILL = "disabled"
        /\ glState.polygonOffset = <<"0.0", "0.0">>
        /\ glState.DEPTH_TEST = "enabled" /\ glState.depthMask = "true"
        /\ glState.depthFunc = "LESS" /\ glState.depthRange = <<"0.0", "1.0">>
        /\ glState.STENCIL_TEST = "disabled"
        /\ glState.stencilFuncFront[1] = "ALWAYS" /\ glState.stencilFuncBack[1] = "ALWAYS"
        /\ glState.stencilOpFront = <<"KEEP", "KEEP", "KEEP">>
        /\ glState.stencilOpBack = <<"KEEP", "KEEP", "KEEP">>
        /\ glState.stencilMaskFront = "0xffff" /\ glState.stencilMaskBack = "0xffff"
        /\ glState.SAMPLE_ALPHA_TO_COVERAGE = "disabled" /\ glState.BLEND = "disabled"
        /\ glState.blendEquation = <<"FUNC_ADD", "FUNC_ADD">>
        /\ glState.blendFunc = <<"ONE", "ZERO", "ONE", "ZERO">>
        /\ glState.colorMask = <<"true", "true", "true", "true">>

\* a successful initialize of a device whose interrupted copy had left a
\* framebuffer bound
C17_Witness ==
    /\ ReturnedTrue
    /\ glFramebuffer = NULL_FB
    /\ stateCache.glFramebuffer # NULL_FB
    /\ glState.DEPTH_TEST = "enabled"

\* the step of section 4.3 a log entry belongs to, the depth-bit override
\* counted where `depthStep` says; 0 for entries that belong to none
StepOf(entry, depthStep) ==
    CASE entry = "getContext" -> 1
      [] entry \in {"queryIdentity", "queryLimits"} -> 2
      [] entry = "quirk:depthBits" -> depthStep
      [] entry = "deriveFormats" -> 4
      [] entry \in {"enumerateExtensions", "resolveExtensions"} -> 5
      [] entry \in QuirkEntries \ {"quirk:depthBits"} -> 5
      [] entry \in FlagEntries -> 6
      [] entry = "initStates" -> 7
      [] entry = "createQueue" -> 8
      [] entry \in {"createNullTextures", "uploadNullTextures"} -> 9
      [] OTHER -> 0

\* the entries of log that belong to a step occur in step order
InStepOrder(log, depthStep) ==
    \A i, j \in DOMAIN log :
        (i < j /\ StepOf(log[i], depthStep) # 0 /\ StepOf(log[j], depthStep) # 0)
            => StepOf(log[i], depthStep) <= StepOf(log[j], depthStep)

\* every step left its entries, and the baseline state was applied once,
\* before the queue and the textures were created
StepsComplete(log) ==
    /\ \A e \in {"getContext", "queryLimits", "deriveFormats", "resolveExtensions",
                 "writeFeatures", "initStates", "createQueue", "createNullTextures"} :
          Logs(log, e)
    /\ Cardinality({i \in DOMAIN log : log[i] = "initStates"}) = 1
    /\ \A i, j \in DOMAIN log :
          (log[i] = "initStates" /\ log[j] \in {"createQueue", "createNullTextures"})
              => i < j

OwnedRefs == {"queue", "nullTex2D", "nullTexCube"}

AssignedBy(ref) == IF ref = "queue" THEN "createQueue" ELSE "createNullTextures"

\* this step lets go of the object that `ref` referred to: the reference
\* is nulled or initialize assigns to it
LetsGo(ref) ==
    \/ dev'[ref].null
    \/ lastOp' = "initialize" /\ Logs(initLog', AssignedBy(ref))

\* C19: across initialize and destroy calls every default queue and null
\* texture the device created is destroyed exactly once by the time destroy
\* returns, and afterwards nullTex2D, nullTexCube, the queue and the context
\* are null.  The device destroys an owned object only through its
\* reference, in destroy, so this says: no step but destroy lets go of a
\* reference to a live owned object, and destroy leaves all four null
C19_OwnedDestroyedOnce ==
    [][ /\ \A ref \in OwnedRefs :
              (~dev[ref].null /\ LetsGo(ref)) => lastOp' = "destroy"
        /\ lastOp' = "destroy" =>
              /\ \A ref \in OwnedRefs : dev'[ref].null
              /\ dev'.webGLRC = NULL ]_vars

\* C20: a create<Type> call whose resource initializer fails leaves the
\* device as it was (feature flags, handles, width and height, statistics,
\* default queue, null textures, the framebuffer entry of the state cache),
\* and the device stays usable: a create<Type> call whose initializer
\* succeeds, after failures too, returns its object
C20_FailedCreateIsLocal ==
    [][ /\ (created'.method # "none" /\ ~created'.initOk) =>
              /\ dev' = dev
              /\ stateCache' = stateCache
              /\ glFramebuffer' = glFramebuffer
        /\ (created'.method # "none" /\ created'.initOk) =>
              created'.ret = "object" ]_vars

\* a failed create<Type> on an initialized device
C20_Witness ==
    /\ created.method = "create" /\ ~created.initOk /\ created.ret = NULL
    /\ dev.webGLRC # NULL /\ ~dev.queue.null /\ ~dev.nullTex2D.null

\* the context answers no spelling of ext
Absent(supported, ext) ==
    \A i \in DOMAIN prefixes : (prefixes[i] \o ext) \notin supported

\* C21: with a context acquired, initialize succeeds whatever extensions are
\* absent, the empty set and a null extension list included; each absent
\* extension leaves a null handle and false feature flags behind
C21_AbsentCapabilityIsSilent ==
    (lastOp = "initialize" /\ ~ContextFailed(initLog)) =>
        /\ Last(initLog) = "return true"
        /\ \A e \in ExtNames : Absent(glSupported, e) => dev.handles[e] = NULL
        /\ \A x \in ProbedFeatures :
              (BackingExtension(x) # NULL /\ Absent(glSupported, BackingExtension(x)))
                  => ~dev.features[x]

\* an initialize that got a null extension list from a context with one
\* format extension present and 32-bit indices absent
C21_Witness ==
    /\ ReturnedTrue
    /\ dev.extensions.null
    /\ dev.handles["OES_texture_float"] # NULL /\ dev.features["TEXTURE_FLOAT"]
    /\ dev.handles["OES_element_index_uint"] = NULL
    /\ ~dev.features["ELEMENT_INDEX_UINT"]

\* the runtime feature query is unavailable (loadRuntime missing, returning
\* nothing, or without getFeature) or reports a VAO revision <= 0
QueryRefusesVAO(rt) == rt \in {"noLoadRuntime", "noRuntime", "noGetFeature", "rev0"}

\* C22: on a runtime-based platform other than VIVO, when the runtime
\* feature query is unavailable or reports a revision <= 0, initialize
\* leaves the VAO handle null and useVAO false; in every other case useVAO
\* after initialize is true exactly when OES_vertex_array_object resolved
C22_UseVAOFollowsRuntime ==
    [][ \A rt \in RuntimeQueries, sup \in VAOContexts :
            (\E info \in ReinitInputs.infos, ln \in ReinitInputs.listNulls :
                 initialize(info, "ok", sup, TRUE, TRUE, TRUE, rt, ln))
            => IF platform.RUNTIME_BASED /\ ~platform.VIVO /\ QueryRefusesVAO(rt)
               THEN dev'.handles["OES_vertex_array_object"] = NULL /\ ~dev'.useVAO
               ELSE dev'.useVAO <=> (getExtension(sup, "OES_vertex_array_object") # NULL)
      ]_vars

\* C28: after every successful initialize, a second one after destroy or
\* after an initialize with another extension set or runtime answer
\* included, useVAO is true exactly when the VAO handle that initialize
\* resolved is non-null after the quirk rules
C28_UseVAOIsFresh ==
    ReturnedTrue => (dev.useVAO <=> dev.handles["OES_vertex_array_object"] # NULL)

\* an initialize that acquired its context has run last
Initialized == lastOp = "initialize" /\ ~ContextFailed(initLog)

\* C23: on the UC browser the instancing handle is null and INSTANCED_ARRAYS
\* false after initialize, even if the context exposes
\* ANGLE_instanced_arrays; on ByteDance with iOS the depth-texture handle is
\* null and FORMAT_D16, FORMAT_D24, FORMAT_D24S8 are false, even if the
\* context exposes WEBGL_depth_texture
C23_BrokenCapabilitiesOff ==
    Initialized =>
        /\ platform.browserType = "uc" =>
              /\ dev.handles["ANGLE_instanced_arrays"] = NULL
              /\ ~dev.features["INSTANCED_ARRAYS"]
        /\ (platform.BYTEDANCE /\ platform.os = "iOS") =>
              /\ dev.handles["WEBGL_depth_texture"] = NULL
              /\ \A x \in {"FORMAT_D16", "FORMAT_D24", "FORMAT_D24S8"} : ~dev.features[x]

\* ByteDance on iOS in the UC browser, on a context that exposes both
\* extensions
C23_Witness ==
    /\ ReturnedTrue
    /\ platform.browserType = "uc" /\ platform.BYTEDANCE /\ platform.os = "iOS"
    /\ {"ANGLE_instanced_arrays", "WEBGL_depth_texture"} \subseteq glSupported
    /\ dev.handles["OES_texture_float"] # NULL

\* C24: after initialize destroyShadersImmediately is false exactly on iOS
\* with main version <= 10 and on WeChat for Android, noCompressedTexSubImage2D
\* is true exactly on WeChat, whatever extensions the context exposes
C24_ShaderAndCompressedQuirks ==
    Initialized =>
        /\ ~dev.destroyShadersImmediately <=>
              \/ platform.os = "iOS" /\ platform.osMainVersion <= 10
              \/ platform.WECHAT /\ platform.os = "Android"
        /\ dev.noCompressedTexSubImage2D <=> platform.WECHAT

\* WeChat on iOS 11: compressed sub-uploads are off, shaders are still
\* destroyed at once
C24_Witness ==
    /\ ReturnedTrue
    /\ platform.WECHAT /\ platform.os = "iOS" /\ platform.osMainVersion = 11
    /\ dev.noCompressedTexSubImage2D /\ dev.destroyShadersImmediately
    /\ glSupported # {}

\* C25: on Alipay the depth bit count is 24 when the depth-stencil format is
\* derived, so whatever (depthBits, stencilBits) the context reports the
\* format is D24S8 with 8 stencil bits and D24 otherwise
C25_AlipayDepth24 ==
    (Initialized /\ platform.ALIPAY) =>
        /\ dev.depthBits = 24
        /\ dev.depthStencilFmt = IF glStencilBits = 8 THEN "D24S8" ELSE "D24"
        /\ \A i, j \in DOMAIN initLog :
              (initLog[i] = "quirk:depthBits" /\ initLog[j] = "deriveFormats") => i < j
        /\ Logs(initLog, "quirk:depthBits")

\* Alipay on a context that reports 32 depth bits and no stencil
C25_Witness ==
    /\ ReturnedTrue /\ platform.ALIPAY
    /\ glDepthBits = 32 /\ glStencilBits = 0
    /\ dev.depthStencilFmt = "D24"

RECURSIVE C26_LayersCovered(_, _)
\* the layers that regions[i..] cover, counted region by region
C26_LayersCovered(regions, i) ==
    IF i > Len(regions) THEN 0
    ELSE regions[i].texSubres.layerCount + C26_LayersCovered(regions, i + 1)

\* the uploads initialize issued to the null textures
C26_Uploads(tex) == { tex.uploads[i] : i \in DOMAIN tex.uploads }

\* C26 as claimed: every upload initialize issues to a layered target (the
\* cube null texture) passes as many buffers as regions, one buffer per layer
C26_BuffersMatchRegions ==
    Initialized =>
        \A u \in C26_Uploads(dev.nullTexCube) :
            /\ Len(u.buffers) = Len(u.regions)
            /\ Len(u.buffers) = C16_Layers(dev.nullTexCube)

\* C26 as amended: every upload initialize issues passes one buffer per
\* layer its regions cover; the cube upload passes six buffers, one per
\* layer of the texture, and a single region of six layers
C26_BufferPerLayer ==
    Initialized =>
        /\ \A u \in C26_Uploads(dev.nullTex2D) \cup C26_Uploads(dev.nullTexCube) :
              Len(u.buffers) = C26_LayersCovered(u.regions, 1)
        /\ \A u \in C26_Uploads(dev.nullTexCube) :
              /\ Len(u.buffers) = C16_Layers(dev.nullTexCube)
              /\ Len(u.buffers) = 6
              /\ Len(u.regions) = 1

\* the cube null texture after its upload
C26_Witness ==
    /\ ReturnedTrue
    /\ \E u \in C26_Uploads(dev.nullTexCube) :
          Len(u.buffers) = 6 /\ u.regions[1].texSubres.layerCount = 6
    /\ C26_Uploads(dev.nullTex2D) # {}

\* C29: copyFramebufferToBuffer issues one pixel read per region, in list
\* order, each into the same view from its first element; so with regions in
\* the list the view ends with the pixels of the last region at its start,
\* and with an empty list nothing is read and the view is as it was
C29_ReadsOverwriteFromStart ==
    copy.pc # "idle" =>
        LET done == Len(copy.regions) - copy.regionsLeft
            last == copy.regions[done]
            w == last.texExtent.width
            h == last.texExtent.height
        IN  /\ copy.reads = SubSeq(copy.regions, 1, done)
            /\ copy.pc = "returning" => done = Len(copy.regions)
            /\ done = 0 => copy.view = UntouchedView
            /\ done > 0 =>
                  \A k \in 1..(w * h) :
                      copy.view[k] = [read |-> done,
                                      x |-> last.texOffset.x + ((k - 1) % w),
                                      y |-> last.texOffset.y + ((k - 1) \div w)]

\* a read-back of a larger region and then a smaller one: the start of the
\* view holds the second, the rest still the first
C29_Witness ==
    /\ copy.pc = "returning"
    /\ Len(copy.regions) = 2
    /\ copy.regions[1].texExtent.width * copy.regions[1].texExtent.height = 2
    /\ copy.regions[2].texExtent.width * copy.regions[2].texExtent.height = 1
    /\ copy.view[1].read = 2 /\ copy.view[2].read = 1

\* the native size the claim names for override v on a canvas of size dim
C30_NativeSize(v, dim) ==
    IF v = <<>> THEN dim
    ELSE IF v[1] = 0 THEN dim
    ELSE IF v[1] > 0 THEN v[1]
    ELSE 0

\* C30: after initialize nativeWidth and nativeHeight are not negative: each
\* is the configured override when that is positive, the canvas dimension
\* when the override is absent or 0, and 0 when it is negative;
\* devicePixelRatio is the configured ratio, or 1 when that is absent or 0
C30_NativeSizeAndRatio ==
    [][ \A info \in DimensionInfos :
            (/\ lastOp' = "initialize"
             /\ initialize(info, "ok", glSupported, TRUE, TRUE, TRUE, "noLoadRuntime", FALSE))
            => /\ dev'.nativeWidth >= 0 /\ dev'.nativeHeight >= 0
               /\ dev'.nativeWidth = C30_NativeSize(info.nativeWidth, canvasElm.width)
               /\ dev'.nativeHeight = C30_NativeSize(info.nativeHeight, canvasElm.height)
               /\ dev'.devicePixelRatio =
                     IF info.devicePixelRatio \in { <<>>, <<0>> } THEN 1
                     ELSE info.devicePixelRatio[1]
      ]_vars

\* an initialize whose info carried a negative native width, a positive
\* native height and a pixel ratio, on a resized canvas
C30_Witness ==
    /\ ReturnedTrue
    /\ dev.width = 2 /\ dev.nativeWidth = 0
    /\ dev.nativeHeight = 3 /\ dev.height < 3
    /\ dev.devicePixelRatio = 2

\* the field m<row><col> of a, rows and columns counted from 0
C27_At(a, row, col) == a[3 * row + col + 1]

\* the cofactor of a at (row, col): the signed determinant of what is left
\* of a without that row and column
C27_Cofactor(a, row, col) ==
    LET r1 == IF row = 0 THEN 1 ELSE 0
        r2 == IF row = 2 THEN 1 ELSE 2
        c1 == IF col = 0 THEN 1 ELSE 0
        c2 == IF col = 2 THEN 1 ELSE 2
        minor == C27_At(a, r1, c1) * C27_At(a, r2, c2)
                     - C27_At(a, r1, c2) * C27_At(a, r2, c1)
    IN  IF (row + col) % 2 = 0 THEN minor ELSE -minor

\* the determinant of a by the rule of Sarrus
C27_Det(a) ==
    a[1] * a[5] * a[9] + a[2] * a[6] * a[7] + a[3] * a[4] * a[8]
        - a[3] * a[5] * a[7] - a[2] * a[4] * a[9] - a[1] * a[6] * a[8]

\* C27: Mat3.invert and invert return the matrix with nine zeros when the
\* determinant is 0, and otherwise with each field the corresponding
\* cofactor (that of the transposed position) multiplied by 1 / determinant
C27_InvertByCofactors ==
    mat.op \in {"Mat3.invert", "invert"} =>
        IF C27_Det(mat.arg) = 0
        THEN \A k \in 1..9 : mat.val[k] = [n |-> 0, d |-> 1]
        ELSE \A row \in 0..2, col \in 0..2 :
                 C27_At(mat.val, row, col) =
                     [n |-> C27_Cofactor(mat.arg, col, row), d |-> C27_Det(mat.arg)]

\* the instance form on a matrix of determinant -2 with a non-zero
\* off-diagonal cofactor
C27_Witness ==
    /\ mat.op = "invert"
    /\ C27_Det(mat.arg) = -2
    /\ mat.val[2].n # 0 /\ mat.val[2].d = -2

====
